---------------------------- MODULE Spec2Model ----------------------------
(***************************************************************************)
(* Model of the FXP preset parsers of python-binary-parsing.               *)
(*                                                                         *)
(* Four scripts are modelled, each a variant of "load an .fxp file into an *)
(* object, save the object back", and the human-readable view of one:      *)
(*   prog = "bin"    panflute_test.py             FXPBinaryData            *)
(*   prog = "xml"    tuba_test_xml.py             FXP (length-declared)    *)
(*   prog = "tiny"   tuba_test_pytinyxml2.py      FXP (length-declared)    *)
(*   prog = "tiny2"  tuba_test_pytinyxml2_test2.py FXP (marker-scanned)    *)
(*   prog = "hr"     panflute_test.py             FXPHumanReadable         *)
(*                                                                         *)
(* A byte is an integer 0..255, a byte string a sequence of bytes, a text  *)
(* string a sequence of Unicode code points.                               *)
(***************************************************************************)
EXTENDS Integers, Sequences, FiniteSets, TLC

VARIABLES
    prog,     \* which script runs
    file,     \* the bytes of the file to load
    parsed,   \* what the XML library makes of the payload (prog = "hr")
    doc,      \* the FXPBinaryData / FXP object, NoDoc before it exists
    out,      \* the file save leaves on disk
    err,      \* the exception that ended the run, "" when none
    pc,       \* "fresh", "idle", "loaded", "saved", "failed", and for the
              \* view "viewed", "dumped", "reloaded"
    pass,     \* number of the load/save pass, 0 when no file was loaded
    edited,   \* whether the caller assigned an attribute of doc
    hr,       \* the FXPHumanReadable object, NoView before it exists
    json_data,          \* the text to_json gave, <<>> before it exists
    loaded_human_readable  \* the object from_json built, NoView before

vars == <<prog, file, parsed, doc, out, err, pc, pass, edited, hr, json_data, loaded_human_readable>>

---------------------------------------------------------------------------
(* Bounds of the model *)

MaxPieces == 4      \* pieces a marker-scanned payload is assembled from
MaxPass == 2        \* load/save passes chained on one file
MaxWavetables == 2  \* blobs in a wavetables list set by the caller
MaxParams == 3      \* child elements of <parameters>

---------------------------------------------------------------------------
(* Program constants *)

HeaderSize == 60
NameLen == 28
MaxInt32 == 2147483647

XmlMarker == <<60, 63, 120, 109, 108>>                 \* b"<?xml"
PatchEnd == <<60, 47, 112, 97, 116, 99, 104, 62>>      \* b"</patch>"
CcnK == <<67, 99, 110, 75>>                            \* b'CcnK'
FPCh == <<70, 80, 67, 104>>                            \* b'FPCh'

---------------------------------------------------------------------------
(* Python byte-string primitives *)

Rep(b, n) == [i \in 1..n |-> b]

Min(S) == CHOOSE x \in S : \A y \in S : x <= y

\* index normalisation of a slice bound
SliceBound(i, n) ==
    IF i < 0 THEN (IF i + n < 0 THEN 0 ELSE i + n)
    ELSE (IF i > n THEN n ELSE i)

\* s[a:b]
Slice(s, a, b) ==
    LET lo == SliceBound(a, Len(s))
        hi == SliceBound(b, Len(s))
    IN  IF lo >= hi THEN <<>> ELSE SubSeq(s, lo + 1, hi)

\* s[a:]
SliceFrom(s, a) == Slice(s, a, Len(s))

\* s[:b]
SliceTo(s, b) == Slice(s, 0, b)

\* bytes.find(pat): lowest 0-based index of pat in s, -1 when absent
Find(s, pat) ==
    LET idx == {i \in 0..(Len(s) - Len(pat)) :
                    SubSeq(s, i + 1, i + Len(pat)) = pat}
    IN  IF idx = {} THEN -1 ELSE Min(idx)

\* bytes.strip(b'\x00'): removes the NUL bytes at both ends
RECURSIVE LStrip(_)
LStrip(s) == IF s # <<>> /\ Head(s) = 0 THEN LStrip(Tail(s)) ELSE s

RECURSIVE RStrip(_)
RStrip(s) ==
    IF s # <<>> /\ s[Len(s)] = 0 THEN RStrip(SubSeq(s, 1, Len(s) - 1)) ELSE s

Strip(s) == RStrip(LStrip(s))

\* b''.join(list)
RECURSIVE Join(_)
Join(l) == IF l = <<>> THEN <<>> ELSE Head(l) \o Join(Tail(l))

---------------------------------------------------------------------------
(* UTF-8 *)

EncodeCp(c) ==
    IF c < 128 THEN <<c>>
    ELSE IF c < 2048 THEN <<192 + (c \div 64), 128 + (c % 64)>>
    ELSE IF c < 65536
         THEN <<224 + (c \div 4096), 128 + ((c \div 64) % 64), 128 + (c % 64)>>
    ELSE <<240 + (c \div 262144), 128 + ((c \div 4096) % 64),
           128 + ((c \div 64) % 64), 128 + (c % 64)>>

\* str.encode('utf-8')
RECURSIVE Utf8Encode(_)
Utf8Encode(s) ==
    IF s = <<>> THEN <<>> ELSE EncodeCp(Head(s)) \o Utf8Encode(Tail(s))

\* length of the well-formed UTF-8 sequence starting at b[i], 0 when malformed
Utf8Step(b, i) ==
    LET c == b[i]
        cont(k) == i + k <= Len(b) /\ b[i + k] \in 128..191
    IN  IF c < 128 THEN 1
        ELSE IF c \in 194..223 /\ cont(1) THEN 2
        ELSE IF /\ c \in 224..239 /\ cont(1) /\ cont(2)
                /\ (c = 224 => b[i + 1] >= 160)
                /\ (c = 237 => b[i + 1] <= 159) THEN 3
        ELSE IF /\ c \in 240..244 /\ cont(1) /\ cont(2) /\ cont(3)
                /\ (c = 240 => b[i + 1] >= 144)
                /\ (c = 244 => b[i + 1] <= 143) THEN 4
        ELSE 0

Utf8Cp(b, i) ==
    LET k == Utf8Step(b, i)
    IN  IF k = 1 THEN b[i]
        ELSE IF k = 2 THEN (b[i] - 192) * 64 + (b[i + 1] - 128)
        ELSE IF k = 3 THEN (b[i] - 224) * 4096 + (b[i + 1] - 128) * 64
                           + (b[i + 2] - 128)
        ELSE (b[i] - 240) * 262144 + (b[i + 1] - 128) * 4096
             + (b[i + 2] - 128) * 64 + (b[i + 3] - 128)

RECURSIVE Utf8ValidFrom(_, _)
Utf8ValidFrom(b, i) ==
    IF i > Len(b) THEN TRUE
    ELSE Utf8Step(b, i) # 0 /\ Utf8ValidFrom(b, i + Utf8Step(b, i))

\* whether bytes.decode('utf-8') succeeds
Utf8Valid(b) == Utf8ValidFrom(b, 1)

RECURSIVE Utf8DecodeFrom(_, _)
Utf8DecodeFrom(b, i) ==
    IF i > Len(b) THEN <<>>
    ELSE <<Utf8Cp(b, i)>> \o Utf8DecodeFrom(b, i + Utf8Step(b, i))

\* bytes.decode('utf-8'), defined when Utf8Valid(b)
Utf8Decode(b) == Utf8DecodeFrom(b, 1)

---------------------------------------------------------------------------
(* struct, format ">4si4siiii28si" *)

InInt32(i) == i >= -MaxInt32 - 1 /\ i <= MaxInt32

\* ">i": big-endian two's complement
PackInt(i) ==
    LET u == IF i >= 0 THEN i ELSE (i + MaxInt32) + 1
        top == IF i >= 0 THEN 0 ELSE 128
    IN  <<top + (u \div 16777216), (u \div 65536) % 256,
          (u \div 256) % 256, u % 256>>

UnpackInt(b) ==
    LET low == (b[1] % 128) * 16777216 + b[2] * 65536 + b[3] * 256 + b[4]
    IN  IF b[1] >= 128 THEN (low - MaxInt32) - 1 ELSE low

\* "<n>s" that pads a short value but lets a long one through uncut
PackS_nocut(b, n) ==
    IF Len(b) >= n THEN b ELSE b \o Rep(0, n - Len(b))

\* "<n>s": the value cut to n bytes, or NUL-padded on the right to n bytes
PackS(b, n) ==
    IF Len(b) >= n THEN SubSeq(b, 1, n) ELSE b \o Rep(0, n - Len(b))

\* struct.pack(">4si4siiii28si", ...), defined when every integer is InInt32
StructPack(chunkMagic, byteSize, fxMagic, version, fxId, fxVersion, numPrograms, prgName, chunkSize) ==
    PackS(chunkMagic, 4) \o PackInt(byteSize) \o PackS(fxMagic, 4)
    \o PackInt(version) \o PackInt(fxId) \o PackInt(fxVersion)
    \o PackInt(numPrograms) \o PackS(prgName, NameLen) \o PackInt(chunkSize)

\* struct.unpack(">4si4siiii28si", h), defined when Len(h) = 60
StructUnpack(h) ==
    [chunkMagic |-> SubSeq(h, 1, 4),
     byteSize |-> UnpackInt(SubSeq(h, 5, 8)),
     fxMagic |-> SubSeq(h, 9, 12),
     version |-> UnpackInt(SubSeq(h, 13, 16)),
     fxId |-> UnpackInt(SubSeq(h, 17, 20)),
     fxVersion |-> UnpackInt(SubSeq(h, 21, 24)),
     numPrograms |-> UnpackInt(SubSeq(h, 25, 28)),
     prgName |-> SubSeq(h, 29, 56),
     chunkSize |-> UnpackInt(SubSeq(h, 57, 60))]

---------------------------------------------------------------------------
(* Values shared by the variants *)

NoDoc == [kind |-> "none"]
NoFile == [exists |-> FALSE, data |-> <<>>]
Written(b) == [exists |-> TRUE, data |-> b]
NoView == [kind |-> "none"]

---------------------------------------------------------------------------
(* File objects *)

\* whether f.read(n) is accepted: a negative length other than -1 raises
ReadOk(n) == n >= -1

\* f.read(n) that takes n as the offset to stop at, not as a length
Read_abs(f, pos, n) ==
    IF n < 0 \/ n >= Len(f) - pos THEN SliceFrom(f, pos)
    ELSE Slice(f, pos, n)

\* f.read(n) at offset pos: up to n bytes, everything left when n = -1
Read(f, pos, n) ==
    IF n < 0 \/ n >= Len(f) - pos THEN SliceFrom(f, pos)
    ELSE Slice(f, pos, pos + n)

---------------------------------------------------------------------------
(* panflute_test.py: FXPBinaryData *)

\* FXPBinaryData.__init__: the name assertion, then the attributes
FXPBinaryData_init(prgName, chunkSize, fxp_header, non_xml_data_before, xml_content, non_xml_data_after, wavetables) ==
    IF Len(Utf8Encode(prgName)) > NameLen
    THEN [err |-> "AssertionError", doc |-> NoDoc]
    ELSE [err |-> "",
          doc |-> [kind |-> "FXPBinaryData",
                   prgName |-> prgName,
                   chunkSize |-> chunkSize,
                   fxp_header |-> fxp_header,
                   non_xml_data_before |-> non_xml_data_before,
                   xml_content |-> xml_content,
                   non_xml_data_after |-> non_xml_data_after,
                   wavetables |-> wavetables]]

\* FXPBinaryData.parse_header succeeds: the three text fields decode
parse_header_ok(fxp_header) ==
    LET fields == StructUnpack(fxp_header)
    IN  /\ Utf8Valid(fields.chunkMagic)
        /\ Utf8Valid(fields.fxMagic)
        /\ Utf8Valid(fields.prgName)

\* FXPBinaryData.load
FXPBinaryData_load(f) ==
    LET fxp_header == Read(f, 0, HeaderSize)
    IN  IF Len(fxp_header) # HeaderSize
        THEN [err |-> "AssertionError", doc |-> NoDoc]
        ELSE IF ~parse_header_ok(fxp_header)
        THEN [err |-> "UnicodeDecodeError", doc |-> NoDoc]
        ELSE
          LET content == Read(f, HeaderSize, -1)
              start == Find(content, XmlMarker)
              end == Find(content, PatchEnd) + Len(PatchEnd)
              non_xml_data_before ==
                  IF start # -1 THEN SliceTo(content, start) ELSE <<>>
              xml_content ==
                  IF start # -1 /\ end # -1 THEN Slice(content, start, end)
                  ELSE <<>>
              non_xml_data_after ==
                  IF end # -1 THEN SliceFrom(content, end) ELSE <<>>
          IN  FXPBinaryData_init(<<>>, 0, fxp_header, non_xml_data_before,
                                 xml_content, non_xml_data_after, <<>>)

\* FXPBinaryData._write_to_file: the bytes written, in order
FXPBinaryData_write_to_file(d) ==
    d.fxp_header \o d.non_xml_data_before \o d.xml_content
    \o d.non_xml_data_after \o Join(d.wavetables)

---------------------------------------------------------------------------
(* tuba_test_xml.py: FXP, length-declared *)

\* FXP.__init__ (the three FXP classes share it; the sixth argument is kept
\* as chunkSize by tuba_test_xml.py and as byteSize by the other two)
FXP_init(version, fxId, fxVersion, numPrograms, prgName, size, xmlContent, wavetables) ==
    IF Len(Utf8Encode(prgName)) > NameLen
    THEN [err |-> "AssertionError", doc |-> NoDoc]
    ELSE [err |-> "",
          doc |-> [kind |-> "FXP",
                   version |-> version,
                   fxId |-> fxId,
                   fxVersion |-> fxVersion,
                   numPrograms |-> numPrograms,
                   prgName |-> prgName,
                   size |-> size,
                   xmlContent |-> xmlContent,
                   wavetables |-> wavetables]]

\* FXP.load of tuba_test_xml.py
XmlFXP_load(f) ==
    LET fxp_header == Read(f, 0, HeaderSize)
    IN  IF Len(fxp_header) # HeaderSize
        THEN [err |-> "AssertionError", doc |-> NoDoc]
        ELSE
          LET h == StructUnpack(fxp_header)
              xml_content == Read(f, HeaderSize, h.chunkSize)
              wavetables == Read(f, HeaderSize + Len(xml_content), -1)
              name == Strip(h.prgName)
          IN  IF ~ReadOk(h.chunkSize)
              THEN [err |-> "ValueError", doc |-> NoDoc]
              ELSE IF Len(name) > NameLen
              THEN [err |-> "AssertionError", doc |-> NoDoc]
              ELSE IF ~Utf8Valid(name)
              THEN [err |-> "UnicodeDecodeError", doc |-> NoDoc]
              ELSE FXP_init(h.version, h.fxId, h.fxVersion, h.numPrograms,
                            Utf8Decode(name), h.chunkSize, xml_content,
                            <<wavetables>>)

\* the header FXP.save of tuba_test_xml.py packs
XmlFXP_header(d) ==
    StructPack(CcnK, 0, FPCh, d.version, d.fxId, d.fxVersion, d.numPrograms,
               Utf8Encode(d.prgName), Len(d.xmlContent))

\* FXP.save of tuba_test_xml.py: the error raised and the file left on disk
XmlFXP_save(d) ==
    IF ~(/\ InInt32(d.version) /\ InInt32(d.fxId) /\ InInt32(d.fxVersion)
         /\ InInt32(d.numPrograms))
    THEN [err |-> "struct.error", out |-> NoFile]
    ELSE IF Len(XmlFXP_header(d)) # HeaderSize
    THEN [err |-> "AssertionError", out |-> NoFile]
    ELSE [err |-> "",
          out |-> Written(XmlFXP_header(d) \o d.xmlContent
                          \o Join(d.wavetables))]

---------------------------------------------------------------------------
(* pytinyxml2: XMLDocument.Parse followed by XMLDocument.Print *)

\* the byte strings printing the parsed payload may give: the library makes
\* no promise of byte stability, so the payload may come back unchanged, with
\* a line break added after the last element, or empty (a failed parse
\* leaves an empty document)
XMLPrint(xmlContent) == {xmlContent, xmlContent \o <<10>>, <<>>}

---------------------------------------------------------------------------
(* tuba_test_pytinyxml2.py: FXP, length-declared, XML re-serialised *)

\* FXP.load of tuba_test_pytinyxml2.py
TinyFXP_load(f) ==
    LET fxp_header == Read(f, 0, HeaderSize)
    IN  IF Len(fxp_header) # HeaderSize
        THEN [err |-> "struct.error", doc |-> NoDoc]
        ELSE
          LET h == StructUnpack(fxp_header)
              xml_content == Read(f, HeaderSize, h.chunkSize)
              wavetables == Read(f, HeaderSize + Len(xml_content), -1)
              name == Strip(h.prgName)
          IN  IF ~ReadOk(h.chunkSize)
              THEN [err |-> "ValueError", doc |-> NoDoc]
              ELSE IF ~Utf8Valid(name)
              THEN [err |-> "UnicodeDecodeError", doc |-> NoDoc]
              ELSE FXP_init(h.version, h.fxId, h.fxVersion, h.numPrograms,
                            Utf8Decode(name), h.byteSize, xml_content,
                            <<wavetables>>)

\* FXP.save of tuba_test_pytinyxml2.py, serialized_xml being what the
\* printer gave: the error raised and the file left on disk
TinyFXP_save(d, serialized_xml) ==
    LET delta == Len(serialized_xml) - Len(d.xmlContent)
        fits == IF delta >= 0 THEN d.size <= MaxInt32 - delta
                ELSE d.size >= (-MaxInt32 - 1) - delta
        fxp_header ==
            StructPack(CcnK, d.size + delta, FPCh, d.version, d.fxId,
                       d.fxVersion, d.numPrograms, Utf8Encode(d.prgName),
                       Len(serialized_xml))
    IN  IF ~(/\ fits /\ InInt32(d.version) /\ InInt32(d.fxId)
             /\ InInt32(d.fxVersion) /\ InInt32(d.numPrograms))
        THEN [err |-> "struct.error", out |-> NoFile]
        ELSE IF Len(fxp_header) # HeaderSize
        THEN [err |-> "AssertionError", out |-> NoFile]
        ELSE IF Len(d.wavetables) = 0
        THEN [err |-> "IndexError",
              out |-> Written(fxp_header \o serialized_xml)]
        ELSE [err |-> "",
              out |-> Written(fxp_header \o serialized_xml
                              \o d.wavetables[1])]

---------------------------------------------------------------------------
(* tuba_test_pytinyxml2_test2.py: FXP, marker-scanned, XML re-serialised *)

\* FXP.load of tuba_test_pytinyxml2_test2.py
Tiny2FXP_load(f) ==
    LET fxp_header == Read(f, 0, HeaderSize)
    IN  IF Len(fxp_header) # HeaderSize
        THEN [err |-> "struct.error", doc |-> NoDoc]
        ELSE
          LET h == StructUnpack(fxp_header)
              file_content == Read(f, HeaderSize, -1)
              xml_start == Find(file_content, XmlMarker)
              xml_end == Find(file_content, PatchEnd) + Len(PatchEnd)
              xml_content == Slice(file_content, xml_start, xml_end)
              wavetables == <<SliceFrom(file_content, xml_end)>>
              name == Strip(h.prgName)
          IN  IF ~Utf8Valid(name)
              THEN [err |-> "UnicodeDecodeError", doc |-> NoDoc]
              ELSE FXP_init(h.version, h.fxId, h.fxVersion, h.numPrograms,
                            Utf8Decode(name), h.byteSize, xml_content,
                            wavetables)

\* sum(len(wt) for wt in self.wavetables)
RECURSIVE SumLen(_)
SumLen(l) == IF l = <<>> THEN 0 ELSE Len(Head(l)) + SumLen(Tail(l))

\* FXP.save of tuba_test_pytinyxml2_test2.py, serialized_xml being what the
\* printer gave: the error raised and the file left on disk
Tiny2FXP_save(d, serialized_xml) ==
    LET total_size == Len(serialized_xml) + SumLen(d.wavetables)
        fxp_header ==
            StructPack(CcnK, total_size, FPCh, d.version, d.fxId,
                       d.fxVersion, d.numPrograms, Utf8Encode(d.prgName),
                       Len(serialized_xml))
    IN  IF ~Utf8Valid(d.xmlContent)
        THEN [err |-> "UnicodeDecodeError", out |-> NoFile]
        ELSE IF ~(/\ InInt32(d.version) /\ InInt32(d.fxId)
                  /\ InInt32(d.fxVersion) /\ InInt32(d.numPrograms))
        THEN [err |-> "struct.error", out |-> NoFile]
        ELSE [err |-> "",
              out |-> Written(fxp_header \o serialized_xml
                              \o Join(d.wavetables))]

---------------------------------------------------------------------------
(* panflute_test.py: FXPHumanReadable *)

\* What pytinyxml2 hands back for a payload.  An element that is not there
\* (None) is NoElem; an attribute is <<v>> when present with value v and
\* <<>> (None) when missing.  A parsed payload is
\*   [utf8 |-> whether xml_content.decode() succeeds,
\*    patch |-> whether FirstChildElement("patch") finds an element,
\*    meta |-> NoElem or [present |-> TRUE, name, category, comment, author],
\*    parameters |-> NoElem or [present |-> TRUE, children |-> <<...>>]]
\* and a child of parameters is [tag, type, value].
NoElem == [present |-> FALSE]

\* Python values the view is made of: None, a str (its code points), a
\* list, and a dict
PyNone == [ty |-> "none"]

PyStr(s) == [ty |-> "str", s |-> s]

PyList(items) == [ty |-> "list", items |-> items]

\* an insertion-ordered dict: the keys in insertion order and their values
EmptyDict == [ty |-> "dict", order |-> <<>>, val |-> <<>>]

DictHas(d, k) == \E i \in 1..Len(d.order) : d.order[i] = k

DictGet(d, k) == d.val[CHOOSE i \in 1..Len(d.order) : d.order[i] = k]

\* d[k] = v that puts a new key first
DictSet_front(d, k, v) ==
    IF DictHas(d, k)
    THEN [d EXCEPT !.val[CHOOSE i \in 1..Len(d.order) : d.order[i] = k] = v]
    ELSE [d EXCEPT !.order = <<k>> \o @, !.val = <<v>> \o @]

\* d[k] = v: a new key goes last, a known key keeps its place
DictSet(d, k, v) ==
    IF DictHas(d, k)
    THEN [d EXCEPT !.val[CHOOSE i \in 1..Len(d.order) : d.order[i] = k] = v]
    ELSE [d EXCEPT !.order = Append(@, k), !.val = Append(@, v)]

\* element.Attribute(name): the value as a str, None when it is missing
Attribute(a) == IF a = <<>> THEN PyNone ELSE PyStr(a[1])

\* the while loop of from_xml over the children of <parameters>
RECURSIVE CollectParameters(_, _)
CollectParameters(children, d) ==
    IF children = <<>> THEN d
    ELSE LET param == Head(children)
             name == param.tag
             param_type == Attribute(param.type)
             param_value == Attribute(param.value)
         IN  CollectParameters(Tail(children),
                 DictSet(d, name,
                         DictSet(DictSet(EmptyDict, "type", param_type),
                                 "value", param_value)))

\* FXPHumanReadable.from_xml
from_xml(payload, wavetables) ==
    IF ~payload.utf8
    THEN [err |-> "UnicodeDecodeError", view |-> NoView]
    ELSE IF ~payload.patch
    THEN [err |-> "AttributeError", view |-> NoView]
    ELSE
      LET meta == payload.meta
          with_meta ==
              IF meta.present
              THEN DictSet(EmptyDict, "meta",
                       DictSet(DictSet(DictSet(DictSet(EmptyDict,
                           "name", Attribute(meta.name)),
                           "category", Attribute(meta.category)),
                           "comment", Attribute(meta.comment)),
                           "author", Attribute(meta.author)))
              ELSE EmptyDict
          parameters == payload.parameters
      IN  IF ~parameters.present
          THEN [err |-> "AttributeError", view |-> NoView]
          ELSE [err |-> "",
                view |-> [kind |-> "FXPHumanReadable",
                          extracted_xml_data |->
                              DictSet(with_meta, "parameters",
                                  CollectParameters(parameters.children,
                                                    EmptyDict)),
                          wavetables |-> wavetables]]

---------------------------------------------------------------------------
(* base64 *)

\* the character of the base64 alphabet for the 6-bit value i
B64Char(i) ==
    IF i < 26 THEN 65 + i
    ELSE IF i < 52 THEN 97 + (i - 26)
    ELSE IF i < 62 THEN 48 + (i - 52)
    ELSE IF i = 62 THEN 43 ELSE 47

\* the 6-bit value of a character of the base64 alphabet
B64Value(c) ==
    IF c >= 65 /\ c <= 90 THEN c - 65
    ELSE IF c >= 97 /\ c <= 122 THEN c - 97 + 26
    ELSE IF c >= 48 /\ c <= 57 THEN c - 48 + 52
    ELSE IF c = 43 THEN 62 ELSE 63

\* base64.b64encode(b).decode(): the characters, "=" (61) padding the end
RECURSIVE b64encode(_)
b64encode(b) ==
    IF b = <<>> THEN <<>>
    ELSE IF Len(b) = 1
    THEN <<B64Char(b[1] \div 4), B64Char((b[1] % 4) * 16), 61, 61>>
    ELSE IF Len(b) = 2
    THEN <<B64Char(b[1] \div 4), B64Char((b[1] % 4) * 16 + b[2] \div 16),
           B64Char((b[2] % 16) * 4), 61>>
    ELSE <<B64Char(b[1] \div 4), B64Char((b[1] % 4) * 16 + b[2] \div 16),
           B64Char((b[2] % 16) * 4 + b[3] \div 64), B64Char(b[3] % 64)>>
         \o b64encode(SubSeq(b, 4, Len(b)))

\* base64.b64decode(s) of padded base64 text
RECURSIVE b64decode(_)
b64decode(c) ==
    IF Len(c) < 4 THEN <<>>
    ELSE LET v1 == B64Value(c[1])
             v2 == B64Value(c[2])
             v3 == B64Value(c[3])
             v4 == B64Value(c[4])
             byte1 == v1 * 4 + v2 \div 16
             byte2 == (v2 % 16) * 16 + v3 \div 4
             byte3 == (v3 % 4) * 64 + v4
         IN  IF c[3] = 61 THEN <<byte1>>
             ELSE IF c[4] = 61 THEN <<byte1, byte2>>
             ELSE <<byte1, byte2, byte3>> \o b64decode(SubSeq(c, 5, Len(c)))

RECURSIVE MapB64Encode(_)
MapB64Encode(l) ==
    IF l = <<>> THEN <<>>
    ELSE <<PyStr(b64encode(Head(l)))>> \o MapB64Encode(Tail(l))

RECURSIVE MapB64Decode(_)
MapB64Decode(l) ==
    IF l = <<>> THEN <<>>
    ELSE <<b64decode(Head(l).s)>> \o MapB64Decode(Tail(l))

---------------------------------------------------------------------------
(* json *)

\* JSON text is a sequence of tokens: {"t": "{"}, "}", "[", "]", "null",
\* a member name [t |-> "key", s |-> name] and a string
\* [t |-> "str", s |-> the characters between the quotes, escapes written
\* out]; commas, colons and the indentation carry nothing and are left out.
\* Member names are the ASCII names of the model and are written as they are.

HexDigit(n) == IF n < 10 THEN 48 + n ELSE 87 + n

HexValue(c) ==
    IF c >= 48 /\ c <= 57 THEN c - 48
    ELSE IF c >= 97 /\ c <= 102 THEN c - 87 ELSE c - 55

\* how json.dumps (ensure_ascii) writes the character c of a string
JsonEscapeChar(c) ==
    IF c = 34 THEN <<92, 34>>
    ELSE IF c = 92 THEN <<92, 92>>
    ELSE IF c = 10 THEN <<92, 110>>
    ELSE IF c = 13 THEN <<92, 114>>
    ELSE IF c = 9 THEN <<92, 116>>
    ELSE IF c = 8 THEN <<92, 98>>
    ELSE IF c = 12 THEN <<92, 102>>
    ELSE IF c < 32 \/ c > 126
    THEN <<92, 117, HexDigit(c \div 4096), HexDigit((c \div 256) % 16),
           HexDigit((c \div 16) % 16), HexDigit(c % 16)>>
    ELSE <<c>>

RECURSIVE JsonEscape(_)
JsonEscape(s) ==
    IF s = <<>> THEN <<>> ELSE JsonEscapeChar(Head(s)) \o JsonEscape(Tail(s))

\* how json.loads reads the characters between the quotes
RECURSIVE JsonUnescape(_)
JsonUnescape(e) ==
    IF e = <<>> THEN <<>>
    ELSE IF e[1] # 92 THEN <<e[1]>> \o JsonUnescape(Tail(e))
    ELSE IF e[2] = 117
    THEN <<HexValue(e[3]) * 4096 + HexValue(e[4]) * 256
           + HexValue(e[5]) * 16 + HexValue(e[6])>>
         \o JsonUnescape(SubSeq(e, 7, Len(e)))
    ELSE <<(IF e[2] = 110 THEN 10
            ELSE IF e[2] = 114 THEN 13
            ELSE IF e[2] = 116 THEN 9
            ELSE IF e[2] = 98 THEN 8
            ELSE IF e[2] = 102 THEN 12
            ELSE e[2])>>
         \o JsonUnescape(SubSeq(e, 3, Len(e)))

Tok(t) == [t |-> t]

\* json.dumps(v)
RECURSIVE dumps(_)
RECURSIVE DumpMembers(_, _)
RECURSIVE DumpItems(_)
dumps(v) ==
    IF v.ty = "none" THEN <<Tok("null")>>
    ELSE IF v.ty = "str" THEN <<[t |-> "str", s |-> JsonEscape(v.s)]>>
    ELSE IF v.ty = "list"
    THEN <<Tok("[")>> \o DumpItems(v.items) \o <<Tok("]")>>
    ELSE <<Tok("{")>> \o DumpMembers(v, 1) \o <<Tok("}")>>

DumpMembers(d, i) ==
    IF i > Len(d.order) THEN <<>>
    ELSE <<[t |-> "key", s |-> d.order[i]]>> \o dumps(d.val[i])
         \o DumpMembers(d, i + 1)

DumpItems(items) ==
    IF items = <<>> THEN <<>>
    ELSE dumps(Head(items)) \o DumpItems(Tail(items))

\* json.loads: the value that starts at token i and the index after it
RECURSIVE LoadValue(_, _)
RECURSIVE LoadMembers(_, _, _)
RECURSIVE LoadItems(_, _, _)
LoadValue(toks, i) ==
    IF toks[i].t = "null" THEN [v |-> PyNone, next |-> i + 1]
    ELSE IF toks[i].t = "str"
    THEN [v |-> PyStr(JsonUnescape(toks[i].s)), next |-> i + 1]
    ELSE IF toks[i].t = "["
    THEN LoadItems(toks, i + 1, <<>>)
    ELSE LoadMembers(toks, i + 1, EmptyDict)

LoadMembers(toks, i, d) ==
    IF toks[i].t = "}" THEN [v |-> d, next |-> i + 1]
    ELSE LET r == LoadValue(toks, i + 1)
         IN  LoadMembers(toks, r.next, DictSet(d, toks[i].s, r.v))

LoadItems(toks, i, items) ==
    IF toks[i].t = "]" THEN [v |-> PyList(items), next |-> i + 1]
    ELSE LET r == LoadValue(toks, i)
         IN  LoadItems(toks, r.next, Append(items, r.v))

loads(toks) == LoadValue(toks, 1).v

\* FXPHumanReadable.to_json
to_json(view) ==
    dumps(DictSet(DictSet(EmptyDict,
              "extracted_xml_data", view.extracted_xml_data),
              "wavetables", PyList(MapB64Encode(view.wavetables))))

\* FXPHumanReadable.from_json
from_json(text) ==
    LET data == loads(text)
    IN  IF ~DictHas(data, "extracted_xml_data") \/ ~DictHas(data, "wavetables")
        THEN [err |-> "KeyError", view |-> NoView]
        ELSE [err |-> "",
              view |-> [kind |-> "FXPHumanReadable",
                        extracted_xml_data |->
                            DictGet(data, "extracted_xml_data"),
                        wavetables |->
                            MapB64Decode(DictGet(data, "wavetables").items)]]

---------------------------------------------------------------------------
(* Inputs *)

Pieces == {XmlMarker, PatchEnd, <<65>>, Rep(66, 8)}

\* byte strings assembled from at most n pieces
RECURSIVE Contents(_)
Contents(n) ==
    IF n = 0 THEN {<<>>}
    ELSE LET prev == Contents(n - 1)
         IN  prev \cup {c \o p : c \in prev, p \in Pieces}

Lead1 == <<76, 101, 97, 100, 49>>                      \* "Lead1"

GoodHeader == StructPack(CcnK, 0, FPCh, 1, -2, 3, 1, Utf8Encode(Lead1), 0)

\* a header whose chunkMagic is not UTF-8 text
BadMagicHeader ==
    StructPack(<<255, 99, 110, 75>>, 0, FPCh, 1, -2, 3, 1, Utf8Encode(Lead1), 0)

BinFiles ==
    {GoodHeader \o c : c \in Contents(MaxPieces)}
    \cup {BadMagicHeader \o c : c \in Contents(1)}
    \cup {SliceTo(GoodHeader \o XmlMarker \o PatchEnd, n) : n \in {0, 1, 59}}

Blobs == {<<87>>, <<88, 89, 255, 0, 1>>}

\* wavetables lists of at most n blobs
RECURSIVE BlobLists(_)
BlobLists(n) ==
    IF n = 0 THEN {<<>>}
    ELSE LET prev == BlobLists(n - 1)
         IN  prev \cup {Append(l, b) : l \in prev, b \in Blobs}

\* program names, as text
Names ==
    {<<>>, Lead1, Rep(65, NameLen), Rep(65, NameLen + 1),
     Rep(233, 14), Rep(233, 14) \o <<65>>, <<0, 65>>, <<65, 0>>}

\* 28-byte name fields of a header
NameFields ==
    {PackS(Utf8Encode(n), NameLen) : n \in {<<>>, Lead1, Rep(65, NameLen),
                                            Rep(233, 14)}}
    \cup {PackS(<<0, 65>>, NameLen), PackS(<<65, 0, 66>>, NameLen),
          PackS(<<255>>, NameLen), Rep(65, NameLen - 1) \o <<195>>}

\* chunkMagic, byteSize, fxMagic
HeaderTags ==
    {<<CcnK, 0, FPCh>>, <<CcnK, 14, FPCh>>,
     <<<<88, 88, 88, 88>>, 0, FPCh>>, <<CcnK, 0, <<70, 120, 67, 107>>>>}

ChunkSizes == {-2, -1, 0, 5, 14, 100}

XmlBody == XmlMarker \o <<65>> \o PatchEnd

Payloads == {<<>>, XmlBody, XmlBody \o <<87, 84>>}

ShortFiles == {SliceTo(GoodHeader \o XmlBody, n) : n \in {0, 1, 59}}

XmlFiles ==
    {StructPack(t[1], t[2], t[3], 1, -2, 3, 1, nf, cs) \o p :
        t \in HeaderTags, nf \in NameFields, cs \in ChunkSizes, p \in Payloads}
    \cup ShortFiles

TinyFiles ==
    {StructPack(CcnK, 14, FPCh, 1, -2, 3, 1, nf, cs) \o p :
        nf \in NameFields, cs \in ChunkSizes, p \in Payloads}
    \cup ShortFiles

Tiny2Files ==
    {GoodHeader \o c : c \in Contents(MaxPieces)} \cup ShortFiles

NoParsed == [kind |-> "none"]

\* attribute values, as text: "Lead1", "Leads", "x", "f", "i", "0.5",
\* "0.25", and a value with a quote, a backslash, a line break and an e-acute
Leads == <<76, 101, 97, 100, 115>>
HalfText == <<48, 46, 53>>
QuarterText == <<48, 46, 50, 53>>
OddText == <<34, 92, 10, 233>>

MetaElems ==
    {NoElem,
     [present |-> TRUE, name |-> <<Lead1>>, category |-> <<Leads>>,
      comment |-> <<<<>>>>, author |-> <<<<120>>>>],
     [present |-> TRUE, name |-> <<Lead1>>, category |-> <<>>,
      comment |-> <<>>, author |-> <<>>]}

ParamElems ==
    {[tag |-> "cutoff", type |-> <<<<102>>>>, value |-> <<HalfText>>],
     [tag |-> "resonance", type |-> <<<<102>>>>, value |-> <<QuarterText>>],
     [tag |-> "drive", type |-> <<<<105>>>>, value |-> <<>>],
     [tag |-> "cutoff", type |-> <<<<105>>>>, value |-> <<OddText>>]}

\* sequences of at most n parameter elements
RECURSIVE ParamSeqs(_)
ParamSeqs(n) ==
    IF n = 0 THEN {<<>>}
    ELSE LET prev == ParamSeqs(n - 1)
         IN  prev \cup {Append(l, e) : l \in prev, e \in ParamElems}

ParsedPayloads ==
    {[utf8 |-> u, patch |-> p, meta |-> m, parameters |-> ps] :
        u \in BOOLEAN, p \in BOOLEAN, m \in MetaElems,
        ps \in {NoElem} \cup {[present |-> TRUE, children |-> c] :
                                 c \in ParamSeqs(MaxParams)}}

---------------------------------------------------------------------------
(* State machine *)

Start(p, f, where, n) ==
    /\ prog = p
    /\ file = f
    /\ parsed = NoParsed
    /\ doc = NoDoc
    /\ out = NoFile
    /\ err = ""
    /\ pc = where
    /\ pass = n
    /\ edited = FALSE
    /\ hr = NoView
    /\ json_data = <<>>
    /\ loaded_human_readable = NoView

Init ==
    \/ \E f \in BinFiles : Start("bin", f, "idle", 1)
    \/ \E f \in XmlFiles : Start("xml", f, "idle", 1)
    \/ Start("xml", <<>>, "fresh", 0)
    \/ \E f \in TinyFiles : Start("tiny", f, "idle", 1)
    \/ \E f \in Tiny2Files : Start("tiny2", f, "idle", 1)
    \/ /\ prog = "hr"
       /\ file = <<>>
       /\ parsed \in ParsedPayloads
       /\ doc = NoDoc
       /\ out = NoFile
       /\ err = ""
       /\ pc = "idle"
       /\ pass = 1
       /\ edited = FALSE
       /\ hr = NoView
       /\ json_data = <<>>
       /\ loaded_human_readable = NoView

\* the outcome of a load: the object, or the exception
Loaded(r) ==
    /\ doc' = r.doc
    /\ err' = r.err
    /\ pc' = IF r.err = "" THEN "loaded" ELSE "failed"
    /\ UNCHANGED <<prog, file, parsed, out, pass, edited, hr, json_data, loaded_human_readable>>

\* the outcome of a save: the file on disk, and the exception if any
Saved(r) ==
    /\ out' = r.out
    /\ err' = r.err
    /\ pc' = IF r.err = "" THEN "saved" ELSE "failed"
    /\ UNCHANGED <<prog, file, parsed, doc, pass, edited, hr, json_data, loaded_human_readable>>

\* binary_data = FXPBinaryData.load(fxp_file)
BinLoad == prog = "bin" /\ pc = "idle" /\ Loaded(FXPBinaryData_load(file))

\* binary_data.save(tmp_file)
BinSave ==
    /\ prog = "bin" /\ pc = "loaded"
    /\ Saved([err |-> "", out |-> Written(FXPBinaryData_write_to_file(doc))])

\* the saved file is the input of the next load/save pass
BinReload ==
    /\ prog = "bin" /\ pc = "saved" /\ pass < MaxPass
    /\ file' = out.data
    /\ doc' = NoDoc
    /\ out' = NoFile
    /\ pc' = "idle"
    /\ pass' = pass + 1
    /\ UNCHANGED <<prog, parsed, err, edited, hr, json_data, loaded_human_readable>>

\* fxp = FXP.load(...) of tuba_test_xml.py
XmlLoad == prog = "xml" /\ pc = "idle" /\ Loaded(XmlFXP_load(file))

\* fxp = FXP(...): a caller builds the object without a file
XmlNew ==
    /\ prog = "xml" /\ pc = "fresh"
    /\ \E n \in Names, x \in Payloads, w \in BlobLists(MaxWavetables) :
          Loaded(FXP_init(1, -2, 3, 1, n, Len(x), x, w))

\* fxp.prgName = ...: the caller assigns the name of an FXP object
SetName ==
    /\ prog \in {"xml", "tiny", "tiny2"} /\ pc = "loaded" /\ ~edited
    /\ \E n \in Names : doc' = [doc EXCEPT !.prgName = n]
    /\ edited' = TRUE
    /\ UNCHANGED <<prog, file, parsed, out, err, pc, pass, hr, json_data, loaded_human_readable>>

\* fxp.save(...) of tuba_test_xml.py
XmlSave == prog = "xml" /\ pc = "loaded" /\ Saved(XmlFXP_save(doc))

\* fxp = FXP.load(...) of tuba_test_pytinyxml2.py
TinyLoad == prog = "tiny" /\ pc = "idle" /\ Loaded(TinyFXP_load(file))

\* fxp.save(...) of tuba_test_pytinyxml2.py
TinySave ==
    /\ prog = "tiny" /\ pc = "loaded"
    /\ \E x \in XMLPrint(doc.xmlContent) : Saved(TinyFXP_save(doc, x))

\* fxp = FXP.load(...) of tuba_test_pytinyxml2_test2.py
Tiny2Load == prog = "tiny2" /\ pc = "idle" /\ Loaded(Tiny2FXP_load(file))

\* fxp.save(...) of tuba_test_pytinyxml2_test2.py
Tiny2Save ==
    /\ prog = "tiny2" /\ pc = "loaded"
    /\ \E x \in XMLPrint(doc.xmlContent) : Saved(Tiny2FXP_save(doc, x))

\* x.wavetables = ...: the caller replaces the list (check_parsing does)
SetWavetables ==
    /\ prog \in {"bin", "xml", "tiny", "tiny2"} /\ pc = "loaded" /\ ~edited
    /\ \E w \in BlobLists(MaxWavetables) :
          doc' = [doc EXCEPT !.wavetables = w]
    /\ edited' = TRUE
    /\ UNCHANGED <<prog, file, parsed, out, err, pc, pass, hr, json_data, loaded_human_readable>>

\* human_readable = FXPHumanReadable.from_xml(xml_content, wavetables)
HrFromXml ==
    /\ prog = "hr" /\ pc = "idle"
    /\ \E w \in BlobLists(MaxWavetables) :
          LET r == from_xml(parsed, w)
          IN  /\ hr' = r.view
              /\ err' = r.err
              /\ pc' = IF r.err = "" THEN "viewed" ELSE "failed"
    /\ UNCHANGED <<prog, file, parsed, doc, out, pass, edited, json_data, loaded_human_readable>>

\* json_data = human_readable.to_json()
HrToJson ==
    /\ prog = "hr" /\ pc = "viewed"
    /\ json_data' = to_json(hr)
    /\ pc' = "dumped"
    /\ UNCHANGED <<prog, file, parsed, doc, out, err, pass, edited, hr, loaded_human_readable>>

\* loaded_human_readable = FXPHumanReadable.from_json(loaded_json_data)
HrFromJson ==
    /\ prog = "hr" /\ pc = "dumped"
    /\ LET r == from_json(json_data)
       IN  /\ loaded_human_readable' = r.view
           /\ err' = r.err
           /\ pc' = IF r.err = "" THEN "reloaded" ELSE "failed"
    /\ UNCHANGED <<prog, file, parsed, doc, out, pass, edited, hr, json_data>>

Next ==
    \/ BinLoad
    \/ BinSave
    \/ BinReload
    \/ XmlLoad
    \/ XmlNew
    \/ SetName
    \/ XmlSave
    \/ TinyLoad
    \/ TinySave
    \/ Tiny2Load
    \/ Tiny2Save
    \/ SetWavetables
    \/ HrFromXml
    \/ HrToJson
    \/ HrFromJson

Spec == Init /\ [][Next]_vars

---------------------------------------------------------------------------
(* Properties *)

\* the bytes of the loaded file after its header
PostHeader == SliceFrom(file, HeaderSize)

\* the object was loaded from the file and the caller left it alone
Untouched == pass >= 1 /\ ~edited

\* C1: in marker-scanned mode, FXPBinaryData.load followed by
\* FXPBinaryData.save with no edit in between writes exactly the bytes of
\* the file that was loaded, whatever follows the header.
C1_RoundTripExact ==
    (prog = "bin" /\ pc = "saved" /\ pass = 1 /\ ~edited)
        => (out.exists /\ out.data = file)

\* C2: loading the bytes a first load-then-save wrote and saving again
\* writes those same bytes: a second pass changes nothing.
C2_RoundTripIdempotent ==
    (prog = "bin" /\ pc = "saved" /\ pass >= 2 /\ ~edited)
        => (out.exists /\ out.data = file)

\* 0-based index of the first pat in s that starts at or after from, else -1
FindFrom(s, pat, from) ==
    LET idx == {i \in from..(Len(s) - Len(pat)) :
                    SubSeq(s, i + 1, i + Len(pat)) = pat}
    IN  IF idx = {} THEN -1 ELSE Min(idx)

\* C3: the marker-scanned load makes the XML payload the bytes from the
\* first "<?xml" through the end of the first "</patch>" after that marker;
\* preXml is everything before the first "<?xml" (empty when there is none)
\* and the trailing region is everything after that "</patch>".
C3_MarkerSplit ==
    (prog \in {"bin", "tiny2"} /\ pc = "loaded" /\ Untouched) =>
        LET content == PostHeader
            s == FindFrom(content, XmlMarker, 0)
            e == IF s = -1 THEN -1 ELSE FindFrom(content, PatchEnd, s)
            closes == e + Len(PatchEnd)
        IN  /\ (s = -1 /\ prog = "bin") => doc.non_xml_data_before = <<>>
            /\ (s # -1 /\ prog = "bin") =>
                   doc.non_xml_data_before = SubSeq(content, 1, s)
            /\ (e # -1 /\ prog = "bin") =>
                   /\ doc.xml_content = SubSeq(content, s + 1, closes)
                   /\ doc.non_xml_data_after =
                          SubSeq(content, closes + 1, Len(content))
            /\ (e # -1 /\ prog = "tiny2") =>
                   /\ doc.xmlContent = SubSeq(content, s + 1, closes)
                   /\ doc.wavetables =
                          <<SubSeq(content, closes + 1, Len(content))>>

\* C4: in length-declared mode (tuba_test_xml.py), FXP.load followed by
\* FXP.save writes a file identical to the one loaded, for every value of
\* the header fields and every payload length the load accepts.
C4_LengthRoundTrip ==
    (prog = "xml" /\ pc = "saved" /\ Untouched)
        => (out.exists /\ out.data = file)

\* the chunkSize field of the loaded file's header
DeclaredChunkSize == UnpackInt(SubSeq(file, 57, 60))

\* C5 (as stated): for every chunkSize and every post-header byte string the
\* length-declared load takes exactly chunkSize bytes as the XML payload and
\* puts all remaining bytes into a single wavetable blob.
C5_ExactlyChunkSize ==
    (prog \in {"xml", "tiny"} /\ pc = "loaded" /\ Untouched) =>
        /\ Len(doc.xmlContent) = DeclaredChunkSize
        /\ Len(doc.wavetables) = 1
        /\ doc.xmlContent \o doc.wavetables[1] = PostHeader

\* C5 (amended): for a chunkSize from 0 to the number of post-header bytes
\* the load takes exactly chunkSize bytes following the header as the XML
\* payload; for -1 or a chunkSize beyond the bytes available it takes all of
\* them; the bytes left go into a single wavetable blob (all of them when
\* chunkSize is 0); a chunkSize below -1 makes the load fail.
C5_UpToChunkSize ==
    (prog \in {"xml", "tiny"} /\ pass >= 1 /\ ~edited /\ pc # "idle"
     /\ Len(file) >= HeaderSize) =>
        LET cs == DeclaredChunkSize
            rest == PostHeader
            k == IF cs >= 0 /\ cs <= Len(rest) THEN cs ELSE Len(rest)
        IN  /\ cs < -1 => (pc = "failed" /\ doc = NoDoc)
            /\ pc \in {"loaded", "saved"} =>
                   /\ doc.xmlContent = SubSeq(rest, 1, k)
                   /\ doc.wavetables = <<SubSeq(rest, k + 1, Len(rest))>>

\* C5 witness: a loaded file whose chunkSize cuts the post-header bytes in
\* two non-empty parts
C5_Witness ==
    /\ prog = "xml" /\ pc = "loaded" /\ Untouched
    /\ DeclaredChunkSize > 0 /\ DeclaredChunkSize < Len(PostHeader)
    /\ Len(doc.xmlContent) = DeclaredChunkSize
    /\ doc.wavetables[1] # <<>>

\* C6: a save of a document whose prgName encodes to more than 28 bytes
\* fails and leaves no file, however the name got into the document.
C6_LongNameRejected ==
    (doc.kind = "FXP" /\ Len(Utf8Encode(doc.prgName)) > NameLen)
        => (pc # "saved" /\ ~out.exists)

\* C7: a name of at most 28 encoded bytes is written NUL-padded to 28 bytes
\* and unpacking the written field gives the name back; and the name field
\* of a loaded file is written back unchanged.
C7_NameRoundTrip ==
    (prog = "xml" /\ pc = "saved") =>
        LET written == SubSeq(out.data, 29, 56)
            encoded == Utf8Encode(doc.prgName)
        IN  /\ Len(encoded) <= NameLen =>
                   /\ written = encoded \o Rep(0, NameLen - Len(encoded))
                   /\ Utf8Valid(Strip(written))
                   /\ Utf8Decode(Strip(written)) = doc.prgName
            /\ Untouched => written = SubSeq(file, 29, 56)

\* C8: every header save writes is exactly 60 bytes (the payload starts at
\* byte 60 and the rest of the file is the payload and the blobs), the
\* header-size assertion of save never fails, and a file of fewer than 60
\* bytes is rejected by load with an error and no document.
C8_HeaderSize ==
    /\ (prog = "bin" /\ pc = "saved") =>
           /\ Len(doc.fxp_header) = HeaderSize
           /\ SubSeq(out.data, 1, HeaderSize) = doc.fxp_header
    /\ (prog \in {"xml", "tiny", "tiny2"} /\ pc = "saved") =>
           LET blobs == IF prog = "tiny" THEN Len(doc.wavetables[1])
                        ELSE SumLen(doc.wavetables)
           IN  /\ Len(out.data) >= HeaderSize + blobs
               /\ SubSeq(out.data, 1, 4) = CcnK
               /\ SubSeq(out.data, 9, 12) = FPCh
               /\ UnpackInt(SubSeq(out.data, 57, 60))
                      = Len(out.data) - HeaderSize - blobs
    /\ (prog = "xml" /\ pc = "saved") =>
           SubSeq(out.data, HeaderSize + 1, HeaderSize + Len(doc.xmlContent))
               = doc.xmlContent
    /\ (doc.kind = "FXP" /\ pc = "failed") => err # "AssertionError"
    /\ (pass >= 1 /\ Len(file) < HeaderSize /\ prog # "hr") =>
           /\ pc \in {"idle", "failed"}
           /\ doc = NoDoc
           /\ pc = "failed" => err \in {"AssertionError", "struct.error"}

\* C8 witness: a file was written from a document whose name is longer than
\* the 28-byte field
C8_Witness ==
    /\ prog = "xml" /\ pc = "saved" /\ out.exists
    /\ Len(Utf8Encode(doc.prgName)) > NameLen

\* C9: save fails on no document and writes the header, then the regions,
\* then every blob of the wavetables list in list order, whatever list the
\* caller put there.
C9_SerializeAll ==
    /\ (doc.kind # "none" /\ pc = "failed") => err # "IndexError"
    /\ (prog = "bin" /\ pc = "saved") =>
           out.data = doc.fxp_header \o doc.non_xml_data_before
                      \o doc.xml_content \o doc.non_xml_data_after
                      \o Join(doc.wavetables)
    /\ (prog \in {"xml", "tiny", "tiny2"} /\ pc = "saved") =>
           LET payload == UnpackInt(SubSeq(out.data, 57, 60))
           IN  SubSeq(out.data, HeaderSize + payload + 1, Len(out.data))
                   = Join(doc.wavetables)

\* the extracted_xml_data of the view
Extracted == hr.extracted_xml_data

\* C10: with a patch root, a missing patch/meta gives a result without a
\* meta key and a missing patch/parameters gives an empty parameters
\* mapping, neither being an error; without a patch root from_xml fails
\* with a malformed-XML error.
C10_OptionalElements ==
    (prog = "hr" /\ pc # "idle" /\ parsed.utf8) =>
        /\ (parsed.patch /\ ~parsed.meta.present
            /\ parsed.parameters.present) =>
               (pc = "viewed" /\ ~DictHas(Extracted, "meta"))
        /\ (parsed.patch /\ ~parsed.parameters.present) =>
               /\ pc = "viewed"
               /\ DictGet(Extracted, "parameters") = EmptyDict
               /\ DictHas(Extracted, "meta") = parsed.meta.present
        /\ ~parsed.patch => (pc = "failed" /\ err = "MalformedXml")

\* the children of <parameters> in document order
Children == parsed.parameters.children

\* the parameters mapping of a view
ParametersOf(view) == DictGet(view.extracted_xml_data, "parameters")

\* the entry that carries the type and value of the element c verbatim
EntryOf(c) ==
    [ty |-> "dict",
     order |-> <<"type", "value">>,
     val |-> <<IF c.type = <<>> THEN PyNone ELSE PyStr(c.type[1]),
               IF c.value = <<>> THEN PyNone ELSE PyStr(c.value[1])>>]

\* the tag names from the i-th element on, each at its first occurrence
RECURSIVE FirstTags(_, _)
FirstTags(c, i) ==
    IF i > Len(c) THEN <<>>
    ELSE (IF \E j \in 1..(i - 1) : c[j].tag = c[i].tag THEN <<>>
          ELSE <<c[i].tag>>)
         \o FirstTags(c, i + 1)

\* the last element with the given tag name
LastWithTag(c, tag) ==
    c[CHOOSE i \in 1..Len(c) :
          c[i].tag = tag /\ \A j \in (i + 1)..Len(c) : c[j].tag # tag]

DistinctTags(c) ==
    \A i, j \in 1..Len(c) : c[i].tag = c[j].tag => i = j

\* C11 (as stated): from_xml gives a parameters mapping with one entry per
\* child element, in document order, each keyed by the tag name and carrying
\* the element's type and value; to_json then from_json changes nothing.
C11_OneEntryPerElement ==
    (prog = "hr" /\ pc \in {"viewed", "dumped", "reloaded"}) =>
        /\ Len(ParametersOf(hr).order) = Len(Children)
        /\ \A i \in 1..Len(Children) :
               /\ ParametersOf(hr).order[i] = Children[i].tag
               /\ ParametersOf(hr).val[i] = EntryOf(Children[i])
        /\ pc = "reloaded" =>
               loaded_human_readable.extracted_xml_data
                   = hr.extracted_xml_data

\* C11 (amended): when the tag names of the child elements are pairwise
\* distinct the parameters mapping has one entry per element, in document
\* order, carrying its type and value; in general it has one entry per
\* distinct tag name, in the order of first occurrence, carrying the type
\* and value of the last element of that name; to_json then from_json gives
\* back the same entries in the same order.
C11_OrderPreserved ==
    (prog = "hr" /\ pc \in {"viewed", "dumped", "reloaded"}) =>
        LET params == ParametersOf(hr)
        IN  /\ DistinctTags(Children) =>
                   /\ Len(params.order) = Len(Children)
                   /\ \A i \in 1..Len(Children) :
                          /\ params.order[i] = Children[i].tag
                          /\ params.val[i] = EntryOf(Children[i])
            /\ params.order = FirstTags(Children, 1)
            /\ Len(params.val) = Len(params.order)
            /\ \A k \in 1..Len(params.order) :
                   params.val[k]
                       = EntryOf(LastWithTag(Children, params.order[k]))
            /\ pc = "reloaded" =>
                   /\ ParametersOf(loaded_human_readable).order = params.order
                   /\ ParametersOf(loaded_human_readable).val = params.val
                   /\ loaded_human_readable.extracted_xml_data
                          = hr.extracted_xml_data
                   /\ loaded_human_readable.wavetables = hr.wavetables

\* C11 witness: the parameters cutoff, resonance, drive came through
\* from_xml, to_json and from_json in that order
C11_Witness ==
    /\ prog = "hr" /\ pc = "reloaded"
    /\ Len(Children) = 3
    /\ Children[1].tag = "cutoff" /\ Children[2].tag = "resonance"
    /\ Children[3].tag = "drive"
    /\ ParametersOf(loaded_human_readable).order
           = <<"cutoff", "resonance", "drive">>

=============================================================================
